---- MODULE Spec2Model ----
(***************************************************************************)
(* Deterministic bitcoin commitments over output scripts (LNPBP-2):        *)
(* ScriptPubkeyContainer::{construct, reconstruct} and                     *)
(* ScriptPubkeyCommitment::embed_commit of src/bp/dbc/scriptpubkey.rs.     *)
(*                                                                         *)
(* Byte strings (keys, scripts, hashes, tweaking factors) are sequences of *)
(* naturals.  Hash functions and the elliptic-curve tweak are free         *)
(* (collision-free) constructors over these sequences: two digests are     *)
(* equal only when their preimages are.  Option<T> is a sequence of length *)
(* zero (None) or one (Some).                                              *)
(***************************************************************************)
EXTENDS Integers, Sequences, FiniteSets

VARIABLES container, commitment, calls, last

vars == <<container, commitment, calls, last>>

\* ---------------------------------------------------------------- bounds
NumKeys == 2
NumTags == 2
NumMsgs == 2
MaxCalls == 2

\* ------------------------------------------------------------ option type
None == <<>>
Some(x) == <<x>>
IsSome(o) == Len(o) = 1
Unwrap(o) == o[1]

\* ------------------------------------------------- external collaborators
\* secp256k1::PublicKey values and their compressed serialization
Serialize(pubkey) == <<33>> \o pubkey

\* HMAC-SHA256 keyed by the protocol tag over (target bytes, message)
Hmac(tag, data, msg) == <<tag, msg>> \o data

\* pay-to-contract tweak: pubkey + factor * G
TweakAdd(pubkey, factor) == pubkey \o factor

Hash160(bytes) == <<160>> \o bytes
Sha256(bytes) == <<256>> \o bytes

\* Script constructors of the bitcoin crate; a script is [kind, data]
NewP2PK(pubkey) == [kind |-> "P2PK", data |-> Serialize(pubkey)]
NewP2PKH(hash) == [kind |-> "P2PKH", data |-> hash]
NewP2SH(hash) == [kind |-> "P2SH", data |-> hash]
NewV0WPKH(hash) == [kind |-> "P2WPKH", data |-> hash]
NewV0WSH(hash) == [kind |-> "P2WSH", data |-> hash]
NewP2TR(bytes) == [kind |-> "P2TR", data |-> bytes]
NewOpReturn(bytes) == [kind |-> "P2OR", data |-> bytes]
NewPlain(bytes) == [kind |-> "P2S", data |-> bytes]

\* raw bytes of a standard output script (input of the script hashes)
ScriptBytes(script) ==
    CASE script.kind = "P2PK" -> <<1>> \o script.data
      [] script.kind = "P2PKH" -> <<2>> \o script.data
      [] script.kind = "P2SH" -> <<3>> \o script.data
      [] script.kind = "P2WPKH" -> <<4>> \o script.data
      [] script.kind = "P2WSH" -> <<5>> \o script.data
      [] script.kind = "P2TR" -> <<6>> \o script.data
      [] script.kind = "P2OR" -> <<7>> \o script.data
      [] OTHER -> script.data

\* GenerateScripts::to_script_pubkey for secp256k1::PublicKey
PubkeyToScriptPubkey(pubkey, strategy) ==
    CASE strategy = "Exposed" -> NewP2PK(pubkey)
      [] strategy = "LegacyHashed" -> NewP2PKH(Hash160(Serialize(pubkey)))
      [] strategy = "WitnessV0" -> NewV0WPKH(Hash160(Serialize(pubkey)))
      [] strategy = "WitnessScriptHash" ->
            NewP2SH(Hash160(ScriptBytes(NewV0WPKH(Hash160(Serialize(pubkey))))))

\* GenerateScripts::to_script_pubkey for LockScript
LockScriptToScriptPubkey(lockscript, strategy) ==
    CASE strategy = "Exposed" -> NewPlain(lockscript)
      [] strategy = "LegacyHashed" -> NewP2SH(Hash160(lockscript))
      [] strategy = "WitnessV0" -> NewV0WSH(Sha256(lockscript))
      [] strategy = "WitnessScriptHash" ->
            NewP2SH(Hash160(ScriptBytes(NewV0WSH(Sha256(lockscript)))))

\* ScriptPubkeyDescriptor::try_from(PubkeyScript)
DescriptorTryFrom(host) ==
    IF host.kind \in {"P2PK", "P2PKH", "P2SH", "P2WPKH", "P2WSH", "P2TR", "P2OR"}
    THEN [descr |-> host.kind, payload |-> host.data]
    ELSE [descr |-> "P2S", payload |-> host.data]

\* ----------------------------------------------- nested commitment primitives
\* LNPBP1Commitment::embed_commit: tweak of a bare public key
LNPBP1EmbedCommit(pubkey, tag, msg) ==
    LET factor == Hmac(tag, Serialize(pubkey), msg)
    IN  [tweaking_factor |-> Some(factor), commitment |-> TweakAdd(pubkey, factor)]

\* LockscriptCommitment::embed_commit: tweak of the key embedded in a script.
\* A lock script is <<template>> \o embedded key.
LockscriptEmbedCommit(script, pubkey, tag, msg) ==
    LET factor == Hmac(tag, script, msg)
    IN  [tweaking_factor |-> Some(factor),
         commitment |-> <<Head(script)>> \o TweakAdd(Tail(script), factor)]

\* TaprootCommitment::embed_commit: tweak of the taproot intermediate key
TaprootEmbedCommit(script_root, intermediate_key, tag, msg) ==
    LET factor == Hmac(tag, script_root \o Serialize(intermediate_key), msg)
    IN  [tweaking_factor |-> Some(factor),
         commitment |-> script_root \o TweakAdd(intermediate_key, factor)]

\* ------------------------------------------------------------- data model
ScriptPubkeyComposition ==
    {"PublicKey", "PubkeyHash", "ScriptHash", "WPubkeyHash", "WScriptHash",
     "SHWPubkeyHash", "SHWScriptHash", "TapRoot", "OpReturn", "PlainScript"}

ScriptInfoNone == [variant |-> "None", data |-> <<>>]
ScriptInfoLockScript(script) == [variant |-> "LockScript", data |-> script]
ScriptInfoTaproot(hash) == [variant |-> "Taproot", data |-> hash]

PubKeys == {<<k>> : k \in 1..NumKeys}
Tags == 1..NumTags
Msgs == 1..NumMsgs
LockScripts == {<<101>> \o k : k \in PubKeys}
TaprootRoots == {<<201>>}

ScriptInfos ==
    {ScriptInfoNone}
        \cup {ScriptInfoLockScript(s) : s \in LockScripts}
        \cup {ScriptInfoTaproot(h) : h \in TaprootRoots}

Proofs == [pubkey : PubKeys, script_info : ScriptInfos]

\* uncommitted output scripts an observer may present as host
BaseHosts ==
    {PubkeyToScriptPubkey(k, s) : k \in PubKeys,
        s \in {"Exposed", "LegacyHashed", "WitnessV0", "WitnessScriptHash"}}
        \cup {LockScriptToScriptPubkey(l, s) : l \in LockScripts,
                s \in {"Exposed", "LegacyHashed", "WitnessV0", "WitnessScriptHash"}}
        \cup {NewOpReturn(Serialize(k)) : k \in PubKeys}
        \cup {NewP2TR(h \o k) : h \in TaprootRoots, k \in PubKeys}

\* ScriptPubkeyContainer::construct
construct(protocol_tag, pubkey, script_info, scriptpubkey_composition) ==
    [pubkey |-> pubkey,
     script_info |-> script_info,
     scriptpubkey_composition |-> scriptpubkey_composition,
     tag |-> protocol_tag,
     tweaking_factor |-> None]

\* ------------------------------------------------------------- reconstruct
Ok(value) == [status |-> "Ok", value |-> Some(value)]
Err(error) == [status |-> error, value |-> None]

\* candidate lock script carried by the proof (the let of lines 85-89)
ProofLockscript(proof) ==
    IF proof.script_info.variant = "LockScript"
    THEN Some(proof.script_info.data)
    ELSE None

\* P2SHComposition with the two lock-script renderings taken for each other
P2SHCompositionSwapped(proof, script_hash) ==
    LET script == NewP2SH(script_hash)
        lockscript == ProofLockscript(proof)
    IN  IF IsSome(lockscript)
        THEN IF LockScriptToScriptPubkey(Unwrap(lockscript), "WitnessScriptHash") = script
             THEN Ok("ScriptHash")
             ELSE IF LockScriptToScriptPubkey(Unwrap(lockscript), "LegacyHashed") = script
                  THEN Ok("SHWScriptHash")
                  ELSE Err("InvalidProofStructure")
        ELSE IF PubkeyToScriptPubkey(proof.pubkey, "WitnessScriptHash") = script
             THEN Ok("SHWPubkeyHash")
             ELSE Err("InvalidProofStructure")

\* Descr::P2SH arm: composition selected for a pay-to-script-hash host
P2SHComposition(proof, script_hash) ==
    LET script == NewP2SH(script_hash)
        lockscript == ProofLockscript(proof)
    IN  IF IsSome(lockscript)
        THEN IF LockScriptToScriptPubkey(Unwrap(lockscript), "LegacyHashed") = script
             THEN Ok("ScriptHash")
             ELSE IF LockScriptToScriptPubkey(Unwrap(lockscript), "WitnessScriptHash") = script
                  THEN Ok("SHWScriptHash")
                  ELSE Err("InvalidProofStructure")
        ELSE IF PubkeyToScriptPubkey(proof.pubkey, "WitnessScriptHash") = script
             THEN Ok("SHWPubkeyHash")
             ELSE Err("InvalidProofStructure")

\* the match on the host's descriptor: selected composition and the
\* (possibly rewritten) proof
DescriptorComposition(proof, descriptor) ==
    CASE descriptor.descr = "P2SH" ->
            LET sel == P2SHComposition(proof, descriptor.payload)
            IN  IF sel.status = "Ok"
                THEN Ok([composition |-> Unwrap(sel.value), proof |-> proof])
                ELSE Err(sel.status)
      [] descriptor.descr = "P2S" ->
            Ok([composition |-> "PlainScript",
                proof |-> [proof EXCEPT !.script_info =
                                ScriptInfoLockScript(descriptor.payload)]])
      [] descriptor.descr = "P2PK" -> Ok([composition |-> "PubkeyHash", proof |-> proof])
      [] descriptor.descr = "P2PKH" -> Ok([composition |-> "PublicKey", proof |-> proof])
      [] descriptor.descr = "P2OR" -> Ok([composition |-> "OpReturn", proof |-> proof])
      [] descriptor.descr = "P2WPKH" -> Ok([composition |-> "WPubkeyHash", proof |-> proof])
      [] descriptor.descr = "P2WSH" -> Ok([composition |-> "WScriptHash", proof |-> proof])
      [] descriptor.descr = "P2TR" -> Ok([composition |-> "TapRoot", proof |-> proof])

\* ShapeConsistent without the check of the bare-key compositions
ShapeConsistentNoKeyCheck(composition, script_info) ==
    CASE composition \in {"PublicKey", "PubkeyHash", "WPubkeyHash", "SHWPubkeyHash",
                          "OpReturn"} -> TRUE
      [] composition \in {"PlainScript", "ScriptHash", "WScriptHash", "SHWScriptHash"} ->
            script_info.variant = "LockScript"
      [] composition = "TapRoot" -> script_info.variant = "Taproot"

\* the shape validation match of lines 124-147
ShapeConsistent(composition, script_info) ==
    CASE composition \in {"PublicKey", "PubkeyHash", "WPubkeyHash", "SHWPubkeyHash",
                          "OpReturn"} -> script_info.variant = "None"
      [] composition \in {"PlainScript", "ScriptHash", "WScriptHash", "SHWScriptHash"} ->
            script_info.variant = "LockScript"
      [] composition = "TapRoot" -> script_info.variant = "Taproot"

\* ScriptPubkeyContainer::reconstruct
reconstruct(proof, supplement, host) ==
    LET sel == DescriptorComposition(proof, DescriptorTryFrom(host))
    IN  IF sel.status # "Ok"
        THEN Err(sel.status)
        ELSE LET composition == Unwrap(sel.value).composition
                 proof2 == Unwrap(sel.value).proof
             IN  IF ~ShapeConsistent(composition, proof2.script_info)
                 THEN Err("InvalidProofStructure")
                 ELSE Ok([pubkey |-> proof2.pubkey,
                          script_info |-> proof2.script_info,
                          scriptpubkey_composition |-> composition,
                          tag |-> supplement,
                          tweaking_factor |-> None])

\* ------------------------------------------------------------ embed_commit
\* LockscriptRender with ScriptHash rendered as a witness-v0 script hash
LockscriptRenderWitness(composition, lockscript) ==
    CASE composition = "PlainScript" -> Ok(LockScriptToScriptPubkey(lockscript, "Exposed"))
      [] composition = "ScriptHash" -> Ok(LockScriptToScriptPubkey(lockscript, "WitnessV0"))
      [] composition = "WScriptHash" -> Ok(LockScriptToScriptPubkey(lockscript, "WitnessV0"))
      [] composition = "SHWScriptHash" ->
            Ok(LockScriptToScriptPubkey(lockscript, "WitnessScriptHash"))
      [] OTHER -> Err("InvalidProofStructure")

\* the match of lines 209-215: rendering of the committed lock script
LockscriptRender(composition, lockscript) ==
    CASE composition = "PlainScript" -> Ok(LockScriptToScriptPubkey(lockscript, "Exposed"))
      [] composition = "ScriptHash" -> Ok(LockScriptToScriptPubkey(lockscript, "LegacyHashed"))
      [] composition = "WScriptHash" -> Ok(LockScriptToScriptPubkey(lockscript, "WitnessV0"))
      [] composition = "SHWScriptHash" ->
            Ok(LockScriptToScriptPubkey(lockscript, "WitnessScriptHash"))
      [] OTHER -> Err("InvalidProofStructure")

\* the match of lines 239-246: rendering of the tweaked public key
PubkeyRender(composition, pubkey) ==
    CASE composition = "PublicKey" -> Ok(PubkeyToScriptPubkey(pubkey, "Exposed"))
      [] composition = "PubkeyHash" -> Ok(PubkeyToScriptPubkey(pubkey, "LegacyHashed"))
      [] composition = "WPubkeyHash" -> Ok(PubkeyToScriptPubkey(pubkey, "WitnessV0"))
      [] composition = "SHWScriptHash" ->
            Ok(PubkeyToScriptPubkey(pubkey, "WitnessScriptHash"))
      [] composition = "OpReturn" -> Ok(NewOpReturn(Serialize(pubkey)))
      [] OTHER -> Err("InvalidProofStructure")

\* EmbedLockScript without the copy of the nested tweaking factor (line 208)
EmbedLockScriptNoCopy(c, msg) ==
    LET nested == LockscriptEmbedCommit(c.script_info.data, c.pubkey, c.tag, msg)
        script_pubkey == LockscriptRender(c.scriptpubkey_composition, nested.commitment)
    IN  [status |-> script_pubkey.status, value |-> script_pubkey.value, container |-> c]

\* ScriptInfo::LockScript branch, lines 199-215
EmbedLockScript(c, msg) ==
    LET nested == LockscriptEmbedCommit(c.script_info.data, c.pubkey, c.tag, msg)
        c2 == [c EXCEPT !.tweaking_factor = nested.tweaking_factor]
        script_pubkey == LockscriptRender(c.scriptpubkey_composition, nested.commitment)
    IN  [status |-> script_pubkey.status, value |-> script_pubkey.value, container |-> c2]

\* EmbedTaproot returning the taproot commitment as an output script
EmbedTaprootFinalized(c, msg) ==
    IF c.scriptpubkey_composition # "TapRoot"
    THEN [status |-> "InvalidProofStructure", value |-> None, container |-> c]
    ELSE LET nested == TaprootEmbedCommit(c.script_info.data, c.pubkey, c.tag, msg)
             c2 == [c EXCEPT !.tweaking_factor = nested.tweaking_factor]
         IN  [status |-> "Ok", value |-> Some(NewP2TR(nested.commitment)), container |-> c2]

\* ScriptInfo::Taproot branch, lines 216-230
EmbedTaproot(c, msg) ==
    IF c.scriptpubkey_composition # "TapRoot"
    THEN [status |-> "InvalidProofStructure", value |-> None, container |-> c]
    ELSE LET nested == TaprootEmbedCommit(c.script_info.data, c.pubkey, c.tag, msg)
             c2 == [c EXCEPT !.tweaking_factor = nested.tweaking_factor]
         IN  [status |-> "Unimplemented", value |-> None, container |-> c2]

\* EmbedPubkey rendering the original key in place of the tweaked one
EmbedPubkeyUntweaked(c, msg) ==
    LET nested == LNPBP1EmbedCommit(c.pubkey, c.tag, msg)
        c2 == [c EXCEPT !.tweaking_factor = nested.tweaking_factor]
        script_pubkey == PubkeyRender(c.scriptpubkey_composition, c.pubkey)
    IN  [status |-> script_pubkey.status, value |-> script_pubkey.value, container |-> c2]

\* ScriptInfo::None branch, lines 231-247
EmbedPubkey(c, msg) ==
    LET nested == LNPBP1EmbedCommit(c.pubkey, c.tag, msg)
        c2 == [c EXCEPT !.tweaking_factor = nested.tweaking_factor]
        script_pubkey == PubkeyRender(c.scriptpubkey_composition, nested.commitment)
    IN  [status |-> script_pubkey.status, value |-> script_pubkey.value, container |-> c2]

\* ScriptPubkeyCommitment::embed_commit: the outcome (Ok with the output
\* script, an error, or the unimplemented!() abort) and the container as the
\* call leaves it
embed_commit(c, msg) ==
    IF c.script_info.variant = "LockScript"
    THEN EmbedLockScript(c, msg)
    ELSE IF c.script_info.variant = "Taproot"
         THEN EmbedTaproot(c, msg)
         ELSE EmbedPubkey(c, msg)

\* ---------------------------------------------------------- projections
\* ScriptPubkeyContainer::to_proof
to_proof(c) == [pubkey |-> c.pubkey, script_info |-> c.script_info]

\* ScriptPubkeyContainer::into_proof
into_proof(c) == [pubkey |-> c.pubkey, script_info |-> c.script_info]

\* deconstruct returning the composition's default script_info for the proof
deconstructDefaultInfo(c) ==
    [proof |-> [pubkey |-> c.pubkey, script_info |-> ScriptInfoNone],
     supplement |-> c.tag]

\* ScriptPubkeyContainer::deconstruct: the pair (Proof, Supplement)
deconstruct(c) ==
    [proof |-> [pubkey |-> c.pubkey, script_info |-> c.script_info],
     supplement |-> c.tag]

\* ----------------------------------------------------------- state machine
\* A behaviour is the life of one commitment: a container is obtained, by
\* construct on the committer's side or by reconstruct from an observed script
\* on the verifier's side; embed_commit is called on it; reconstruct is called
\* on the output script embed_commit returned.
\*
\* container : Option of the container the caller holds (None before the
\*             first call and after a reconstruct that returned Err)
\* commitment: Option of the output script of the last embed_commit, when it
\*             returned Ok on the container held
\* calls     : number of embed_commit calls made
\* last      : the last call: its name, outcome and arguments, and the
\*             container as it was before the call
NoProof == [pubkey |-> <<>>, script_info |-> ScriptInfoNone]

Call(op, status, pre, msg, proof, supplement, host) ==
    [op |-> op, status |-> status, pre |-> pre, msg |-> msg,
     proof |-> proof, supplement |-> supplement, host |-> host]

Init ==
    /\ container = None
    /\ commitment = None
    /\ calls = 0
    /\ last = Call("start", "Ok", None, 0, NoProof, 0, None)

Construct(tag, pubkey, script_info, composition) ==
    /\ last.op = "start"
    /\ container' = Some(construct(tag, pubkey, script_info, composition))
    /\ commitment' = None
    /\ last' = Call("construct", "Ok", None, 0, NoProof, 0, None)
    /\ UNCHANGED calls

Reconstruct(proof, supplement, host) ==
    LET r == reconstruct(proof, supplement, host)
    IN  /\ container' = r.value
        /\ commitment' = None
        /\ last' = Call("reconstruct", r.status, None, 0, proof, supplement, Some(host))
        /\ UNCHANGED calls

\* reconstruct from a script observed on chain
ReconstructObserved(proof, supplement, host) ==
    /\ last.op = "start"
    /\ Reconstruct(proof, supplement, host)

\* reconstruct from the output script of the last embed_commit
ReconstructCommitted(proof, supplement) ==
    /\ IsSome(commitment)
    /\ Reconstruct(proof, supplement, Unwrap(commitment))

EmbedCommit(msg) ==
    /\ IsSome(container)
    /\ calls < MaxCalls
    /\ LET r == embed_commit(Unwrap(container), msg)
       IN  /\ container' = Some(r.container)
           /\ commitment' = r.value
           /\ last' = Call("embed_commit", r.status, container, msg, NoProof, 0, None)
    /\ calls' = calls + 1

\* deconstruct consumes the container held and returns (Proof, Supplement),
\* recorded as the proof and supplement of the call; the host of a reconstruct
\* that produced the container stays on record
Deconstruct ==
    /\ IsSome(container)
    /\ LET d == deconstruct(Unwrap(container))
       IN  last' = Call("deconstruct", "Ok", container, 0, d.proof, d.supplement, last.host)
    /\ container' = None
    /\ commitment' = None
    /\ UNCHANGED calls

Next ==
    \/ \E tag \in Tags, pubkey \in PubKeys, script_info \in ScriptInfos,
          composition \in ScriptPubkeyComposition :
            Construct(tag, pubkey, script_info, composition)
    \/ \E proof \in Proofs, supplement \in Tags, host \in BaseHosts :
            ReconstructObserved(proof, supplement, host)
    \/ \E proof \in Proofs, supplement \in Tags :
            ReconstructCommitted(proof, supplement)
    \/ \E msg \in Msgs : EmbedCommit(msg)
    \/ Deconstruct

Spec == Init /\ [][Next]_vars

\* ------------------------------------------------------------ properties
\* the composition sets of the shape rule, by ScriptInfo variant
AllowedCompositions(variant) ==
    CASE variant = "None" ->
            {"PublicKey", "PubkeyHash", "WPubkeyHash", "SHWPubkeyHash", "OpReturn"}
      [] variant = "LockScript" ->
            {"PlainScript", "ScriptHash", "WScriptHash", "SHWScriptHash"}
      [] variant = "Taproot" -> {"TapRoot"}

\* the compositions a host of a given descriptor kind can stand for
ImpliedCompositions(descr) ==
    CASE descr = "P2SH" -> {"ScriptHash", "SHWScriptHash", "SHWPubkeyHash"}
      [] descr = "P2S" -> {"PlainScript"}
      [] descr = "P2PK" -> {"PublicKey"}
      [] descr = "P2PKH" -> {"PubkeyHash"}
      [] descr = "P2OR" -> {"OpReturn"}
      [] descr = "P2WPKH" -> {"WPubkeyHash"}
      [] descr = "P2WSH" -> {"WScriptHash"}
      [] descr = "P2TR" -> {"TapRoot"}

AfterEmbed == last.op = "embed_commit"
AfterReconstruct == last.op = "reconstruct"
Pre == Unwrap(last.pre)
Held == Unwrap(container)
Host == Unwrap(last.host)

\* C1: round trip.  After embed_commit on a fresh container whose composition
\* fits its script_info (TapRoot aside), the call has returned an output
\* script, reconstruct from the same proof and tag on that script succeeds,
\* and embed_commit of the same message on the reconstructed container gives
\* the same tweaking factor and the same output script.
C1_RoundTrip ==
    (/\ AfterEmbed
     /\ Pre.tweaking_factor = None
     /\ Pre.scriptpubkey_composition # "TapRoot"
     /\ Pre.scriptpubkey_composition \in AllowedCompositions(Pre.script_info.variant))
    => /\ last.status = "Ok"
       /\ IsSome(commitment)
       /\ LET r == reconstruct(to_proof(Pre), Pre.tag, Unwrap(commitment))
          IN  /\ r.status = "Ok"
              /\ LET e == embed_commit(Unwrap(r.value), last.msg)
                 IN  /\ e.status = "Ok"
                     /\ e.container.tweaking_factor = Held.tweaking_factor
                     /\ e.value = commitment

\* C2: shape rejection.  reconstruct returns InvalidProofStructure whenever no
\* composition the host's descriptor stands for is allowed for the script_info
\* variant of the supplied proof.
C2_ShapeRejection ==
    (/\ AfterReconstruct
     /\ ImpliedCompositions(DescriptorTryFrom(Host).descr)
            \cap AllowedCompositions(last.proof.script_info.variant) = {})
    => last.status = "InvalidProofStructure"

\* C3 as first stated: on a pay-to-script-hash host, with a lock script in the
\* proof reconstruct selects ScriptHash when the legacy-hashed rendering is the
\* host, else SHWScriptHash when the wrapped witness-script-hash rendering is,
\* else fails; without a lock script it selects SHWPubkeyHash exactly when the
\* wrapped witness-pubkey-hash rendering of proof.pubkey is the host, and
\* fails otherwise.
C3_P2SHDisambiguationOriginal ==
    (AfterReconstruct /\ Host.kind = "P2SH")
    => LET proof == last.proof
           selected(comp) ==
               /\ last.status = "Ok"
               /\ IsSome(container)
               /\ Held.scriptpubkey_composition = comp
           failed == last.status = "InvalidProofStructure" /\ container = None
       IN  IF proof.script_info.variant = "LockScript"
           THEN IF LockScriptToScriptPubkey(proof.script_info.data, "LegacyHashed") = Host
                THEN selected("ScriptHash")
                ELSE IF LockScriptToScriptPubkey(proof.script_info.data,
                                                 "WitnessScriptHash") = Host
                     THEN selected("SHWScriptHash")
                     ELSE failed
           ELSE IF PubkeyToScriptPubkey(proof.pubkey, "WitnessScriptHash") = Host
                THEN selected("SHWPubkeyHash")
                ELSE failed

\* C3: on a pay-to-script-hash host, with a lock script in the proof
\* reconstruct selects ScriptHash when the legacy-hashed rendering is the host,
\* else SHWScriptHash when the wrapped witness-script-hash rendering is, else
\* fails; with script_info None it selects SHWPubkeyHash exactly when the
\* wrapped witness-pubkey-hash rendering of proof.pubkey is the host and fails
\* otherwise; with script_info Taproot it fails whether or not that rendering
\* is the host.
C3_P2SHDisambiguation ==
    (AfterReconstruct /\ Host.kind = "P2SH")
    => LET proof == last.proof
           selected(comp) ==
               /\ last.status = "Ok"
               /\ IsSome(container)
               /\ Held.scriptpubkey_composition = comp
           failed == last.status = "InvalidProofStructure" /\ container = None
       IN  CASE proof.script_info.variant = "LockScript" ->
                    IF LockScriptToScriptPubkey(proof.script_info.data, "LegacyHashed") = Host
                    THEN selected("ScriptHash")
                    ELSE IF LockScriptToScriptPubkey(proof.script_info.data,
                                                     "WitnessScriptHash") = Host
                         THEN selected("SHWScriptHash")
                         ELSE failed
             [] proof.script_info.variant = "None" ->
                    IF PubkeyToScriptPubkey(proof.pubkey, "WitnessScriptHash") = Host
                    THEN selected("SHWPubkeyHash")
                    ELSE failed
             [] proof.script_info.variant = "Taproot" -> failed

\* reconstruct has told the two lock-script renderings of a P2SH host apart
C3_Witness ==
    /\ AfterReconstruct
    /\ Host.kind = "P2SH"
    /\ last.status = "Ok"
    /\ Held.scriptpubkey_composition = "SHWScriptHash"
    /\ LockScriptToScriptPubkey(last.proof.script_info.data, "LegacyHashed") # Host

\* the public key embed_commit commits to on the bare-key path
TweakedPubkey == LNPBP1EmbedCommit(Pre.pubkey, Pre.tag, last.msg).commitment

\* C4: bare-key dispatch.  With script_info None, embed_commit returns Ok for
\* PublicKey, PubkeyHash, WPubkeyHash, SHWPubkeyHash and OpReturn, with the
\* tweaked key rendered as exposed key, legacy hash, witness-v0 hash,
\* script-hash-wrapped witness-pubkey-hash and null-data push; for every other
\* composition it returns InvalidProofStructure.
C4_BareKeyDispatch ==
    (AfterEmbed /\ Pre.script_info.variant = "None")
    => LET comp == Pre.scriptpubkey_composition
           rendered(script) == last.status = "Ok" /\ commitment = Some(script)
       IN  CASE comp = "PublicKey" -> rendered(PubkeyToScriptPubkey(TweakedPubkey, "Exposed"))
             [] comp = "PubkeyHash" ->
                    rendered(PubkeyToScriptPubkey(TweakedPubkey, "LegacyHashed"))
             [] comp = "WPubkeyHash" ->
                    rendered(PubkeyToScriptPubkey(TweakedPubkey, "WitnessV0"))
             [] comp = "SHWPubkeyHash" ->
                    rendered(PubkeyToScriptPubkey(TweakedPubkey, "WitnessScriptHash"))
             [] comp = "OpReturn" -> rendered(NewOpReturn(Serialize(TweakedPubkey)))
             [] OTHER -> last.status = "InvalidProofStructure" /\ commitment = None

\* C5: with script_info Taproot, embed_commit never returns Ok with an output
\* script: it returns InvalidProofStructure when the composition is not
\* TapRoot, and otherwise aborts as unimplemented.
C5_TaprootRejected ==
    (AfterEmbed /\ Pre.script_info.variant = "Taproot")
    => /\ last.status # "Ok"
       /\ commitment = None
       /\ IF Pre.scriptpubkey_composition = "TapRoot"
          THEN last.status = "Unimplemented"
          ELSE last.status = "InvalidProofStructure"

\* embed_commit has run the taproot primitive and aborted
C5_Witness ==
    /\ AfterEmbed
    /\ Pre.script_info.variant = "Taproot"
    /\ Pre.scriptpubkey_composition = "TapRoot"
    /\ last.status = "Unimplemented"
    /\ IsSome(Held.tweaking_factor)

\* C6: no partial state on error.  Whenever embed_commit returns an error the
\* container is as it was before the call.
C6_NoPartialStateOnError ==
    (AfterEmbed /\ last.status = "InvalidProofStructure") => container = last.pre

\* C7: write-once tweaking factor.  tweaking_factor is None after construct and
\* reconstruct, and an embed_commit call on a container whose tweaking_factor
\* is set leaves the stored value as it was.
C7_WriteOnce ==
    /\ (last.op \in {"construct", "reconstruct"} /\ IsSome(container))
            => Held.tweaking_factor = None
    /\ (AfterEmbed /\ IsSome(Pre.tweaking_factor))
            => Held.tweaking_factor = Pre.tweaking_factor

\* C8: OP_RETURN commitment.  With script_info None and composition OpReturn,
\* embed_commit returns Ok with the null-data script pushing the serialization
\* of the public key tweaked by the bare-key primitive from (tag, pubkey,
\* message), and tweaking_factor is the tweak that primitive reported.
C8_OpReturn ==
    (/\ AfterEmbed
     /\ Pre.script_info.variant = "None"
     /\ Pre.scriptpubkey_composition = "OpReturn")
    => LET factor == Hmac(Pre.tag, Serialize(Pre.pubkey), last.msg)
       IN  /\ last.status = "Ok"
           /\ commitment = Some([kind |-> "P2OR",
                                 data |-> Serialize(TweakAdd(Pre.pubkey, factor))])
           /\ Held.tweaking_factor = Some(factor)

\* embed_commit has returned a null-data script
C8_Witness ==
    /\ AfterEmbed
    /\ Pre.script_info.variant = "None"
    /\ Pre.scriptpubkey_composition = "OpReturn"
    /\ last.status = "Ok"
    /\ Unwrap(commitment).kind = "P2OR"

\* the lock script embed_commit commits to on the lock-script path
TweakedLockscript ==
    LockscriptEmbedCommit(Pre.script_info.data, Pre.pubkey, Pre.tag, last.msg).commitment

\* C9: lock-script dispatch.  With script_info LockScript, embed_commit returns
\* Ok exactly for PlainScript, ScriptHash, WScriptHash and SHWScriptHash, with
\* the committed lock script rendered as exposed script, legacy hash,
\* witness-v0 hash and script-hash-wrapped witness-script-hash; for every
\* other composition it returns InvalidProofStructure.
C9_LockScriptDispatch ==
    (AfterEmbed /\ Pre.script_info.variant = "LockScript")
    => LET comp == Pre.scriptpubkey_composition
           rendered(script) == last.status = "Ok" /\ commitment = Some(script)
       IN  CASE comp = "PlainScript" ->
                    rendered([kind |-> "P2S", data |-> TweakedLockscript])
             [] comp = "ScriptHash" ->
                    rendered([kind |-> "P2SH", data |-> Hash160(TweakedLockscript)])
             [] comp = "WScriptHash" ->
                    rendered([kind |-> "P2WSH", data |-> Sha256(TweakedLockscript)])
             [] comp = "SHWScriptHash" ->
                    rendered([kind |-> "P2SH",
                              data |-> Hash160(ScriptBytes(
                                  [kind |-> "P2WSH", data |-> Sha256(TweakedLockscript)]))])
             [] OTHER -> last.status = "InvalidProofStructure" /\ commitment = None

\* embed_commit has rendered a committed lock script as a legacy script hash
C9_Witness ==
    /\ AfterEmbed
    /\ Pre.script_info.variant = "LockScript"
    /\ Pre.scriptpubkey_composition = "ScriptHash"
    /\ last.status = "Ok"
    /\ Unwrap(commitment).kind = "P2SH"

\* C10: every container reconstruct returns has a composition allowed for its
\* script_info, no tweaking factor, the supplement as tag and the proof's
\* public key.
C10_ReconstructConsistent ==
    (AfterReconstruct /\ last.status = "Ok")
    => /\ IsSome(container)
       /\ Held.scriptpubkey_composition \in AllowedCompositions(Held.script_info.variant)
       /\ Held.tweaking_factor = None
       /\ Held.tag = last.supplement
       /\ Held.pubkey = last.proof.pubkey

\* reconstruct has returned a container for a committed plain script, with
\* the proof's script_info rewritten
C10_Witness ==
    /\ AfterReconstruct
    /\ last.status = "Ok"
    /\ calls > 0
    /\ Held.scriptpubkey_composition = "PlainScript"
    /\ Held.script_info # last.proof.script_info

\* C11: descriptor-kind preservation.  On a host that is not pay-to-script-hash
\* and on which reconstruct succeeds, the composition selected is the one the
\* host's descriptor stands for (bare pubkey: PublicKey, pubkey hash:
\* PubkeyHash, null-data: OpReturn, witness-v0 pubkey hash: WPubkeyHash,
\* witness-v0 script hash: WScriptHash, taproot: TapRoot, plain script:
\* PlainScript), so that every output script embed_commit returns on the
\* reconstructed container has the descriptor kind of the host.
C11_DescriptorKindPreserved ==
    (AfterReconstruct /\ last.status = "Ok" /\ Host.kind # "P2SH")
    => /\ Held.scriptpubkey_composition
            \in ImpliedCompositions(DescriptorTryFrom(Host).descr)
       /\ \A msg \in Msgs :
            LET e == embed_commit(Held, msg)
            IN  e.status = "Ok"
                    => DescriptorTryFrom(Unwrap(e.value)).descr
                            = DescriptorTryFrom(Host).descr

\* C12: frame of embed_commit.  On every outcome the call leaves pubkey,
\* script_info, scriptpubkey_composition and tag as they were; and when it
\* returns Ok, tweaking_factor is the tweaking factor reported by the nested
\* primitive it invoked (lock-script or bare-key).
C12_EmbedCommitFrame ==
    AfterEmbed
    => /\ Held.pubkey = Pre.pubkey
       /\ Held.script_info = Pre.script_info
       /\ Held.scriptpubkey_composition = Pre.scriptpubkey_composition
       /\ Held.tag = Pre.tag
       /\ last.status = "Ok"
            => /\ Pre.script_info.variant # "Taproot"
               /\ Held.tweaking_factor =
                    IF Pre.script_info.variant = "LockScript"
                    THEN LockscriptEmbedCommit(Pre.script_info.data, Pre.pubkey,
                                               Pre.tag, last.msg).tweaking_factor
                    ELSE LNPBP1EmbedCommit(Pre.pubkey, Pre.tag, last.msg).tweaking_factor

\* a second embed_commit has returned Ok on the lock-script path and replaced
\* the tweaking factor, and nothing else, of the container
C12_Witness ==
    /\ AfterEmbed
    /\ last.status = "Ok"
    /\ Pre.script_info.variant = "LockScript"
    /\ IsSome(Pre.tweaking_factor)
    /\ Held.tweaking_factor # Pre.tweaking_factor
    /\ [Held EXCEPT !.tweaking_factor = None] = [Pre EXCEPT !.tweaking_factor = None]

AfterDeconstruct == last.op = "deconstruct"

\* C13: proof projections.  to_proof, into_proof and the first component of
\* deconstruct are the Proof made of the container's pubkey and script_info,
\* and the second component of deconstruct is its tag, whatever the
\* composition and the tweaking factor; deconstruct of a container that
\* reconstruct(p, s, h) returned is (p, s) when h is not a plain script, and
\* for a plain-script h it is (p with script_info LockScript(h's script), s).
C13_ProofProjections ==
    /\ AfterDeconstruct
        => /\ last.proof = [pubkey |-> Pre.pubkey, script_info |-> Pre.script_info]
           /\ last.supplement = Pre.tag
           /\ to_proof(Pre) = last.proof
           /\ into_proof(Pre) = last.proof
           /\ \A comp \in ScriptPubkeyComposition :
                LET c == [Pre EXCEPT !.scriptpubkey_composition = comp,
                                     !.tweaking_factor = None]
                IN  /\ deconstruct(c).proof = last.proof
                    /\ deconstruct(c).supplement = last.supplement
                    /\ to_proof(c) = last.proof
                    /\ into_proof(c) = last.proof
           /\ (IsSome(last.host) /\ Host.kind = "P2S")
                => last.proof.script_info = ScriptInfoLockScript(Host.data)
    /\ (AfterReconstruct /\ last.status = "Ok")
        => LET d == deconstruct(Held)
           IN  /\ d.supplement = last.supplement
               /\ d.proof.pubkey = last.proof.pubkey
               /\ IF Host.kind = "P2S"
                  THEN d.proof.script_info = ScriptInfoLockScript(Host.data)
                  ELSE d.proof = last.proof

\* deconstruct has returned the proof of a container reconstructed from a
\* plain-script host, with the host's script as script_info
C13_Witness ==
    /\ AfterDeconstruct
    /\ IsSome(last.host)
    /\ Host.kind = "P2S"
    /\ last.proof.script_info = ScriptInfoLockScript(Host.data)
    /\ last.supplement = Pre.tag

====
